---- MODULE Spec2Model ----
(***************************************************************************)
(* Financial-year provisioning and quarter transition of the cron-job      *)
(* scheduler: the two jobs, their database sessions and the committed      *)
(* FinancialYear / Quarter tables.                                         *)
(*                                                                         *)
(* A date is the integer YYYYMMDD, so that comparing dates is comparing    *)
(* integers.  Every await of the two coroutines is one step, and the clock *)
(* may advance between any two steps.  Each session works on a private     *)
(* transaction; the tables below hold committed rows only.  Under Spec a   *)
(* run of one job starts when no run of the other is in progress.          *)
(*                                                                         *)
(* Spec          the two service coroutines, started at arbitrary times    *)
(* SpecInterval  the transition job alone on a provisioned datastore       *)
(* SpecOverlap   two executions of the transition job at once              *)
(* SpecApp       the application as main.py starts it                      *)
(* SpecFn        the date functions applied to bounded inputs              *)
(* SpecProvOverlap  two executions of provisioning at once                 *)
(* SpecRerun     provisioning executed twice in a row on one date          *)
(***************************************************************************)
EXTENDS Integers, Sequences, FiniteSets, TLC

\* ---------------------------------------------------------------- bounds
NumClients == 2
BaseYear == 2025
NumQuarters == 4

\* ----------------------------------------------------------------- dates
MkDate(y, m, d) == y * 10000 + m * 100 + d
YearOf(dt) == dt \div 10000
MonthOf(dt) == (dt \div 100) % 100

\* The days the clock is sampled at: the first and the last day of each of the
\* NumQuarters calendar quarters that start with January of BaseYear.
QuarterDays(k) ==
    LET y == BaseYear + (k \div 4)
        m == 1 + 3 * (k % 4)
    IN  { MkDate(y, m, 1), MkDate(y, m + 2, IF m + 2 \in { 3, 12 } THEN 31 ELSE 30) }

ClockDates == UNION { QuarterDays(k) : k \in 0 .. (NumQuarters - 1) }

FirstDate == CHOOSE d \in ClockDates : \A e \in ClockDates : d <= e
NextDate(t) ==
    LET later == { d \in ClockDates : d > t }
    IN  CHOOSE d \in later : \A e \in later : d <= e

\* ------------------------------------------------------- pure functions
STATUS_ACTIVE == "active"
STATUS_COMPLETED == "completed"

\* str(y)[-2:] of a four-digit year
LastTwo(y) == y % 100

\* _fy_string: the label YY-YY, as the pair of its two numbers
FyString(fy_start_year) == << LastTwo(fy_start_year), LastTwo(fy_start_year + 1) >>

\* GetCurrentQuarterFromDate with every quarter starting a month early
GetCurrentQuarterFromDateMonthEarly(t) ==
    LET fy_start_year == IF MonthOf(t) >= 4 THEN YearOf(t) ELSE YearOf(t) - 1
        quarter_number ==
            IF 3 <= MonthOf(t) /\ MonthOf(t) <= 5 THEN 1
            ELSE IF 6 <= MonthOf(t) /\ MonthOf(t) <= 8 THEN 2
            ELSE IF 9 <= MonthOf(t) /\ MonthOf(t) <= 11 THEN 3
            ELSE 4
    IN  << fy_start_year, quarter_number >>

GetCurrentQuarterFromDate(t) ==
    LET fy_start_year == IF MonthOf(t) >= 4 THEN YearOf(t) ELSE YearOf(t) - 1
        quarter_number ==
            IF 4 <= MonthOf(t) /\ MonthOf(t) <= 6 THEN 1
            ELSE IF 7 <= MonthOf(t) /\ MonthOf(t) <= 9 THEN 2
            ELSE IF 10 <= MonthOf(t) /\ MonthOf(t) <= 12 THEN 3
            ELSE 4
    IN  << fy_start_year, quarter_number >>

\* GetPreviousQuarter stepping to the next quarter number instead of the one before
GetPreviousQuarterPlusOne(fy_start_year, quarter_number) ==
    IF quarter_number = 1
    THEN << fy_start_year - 1, 4 >>
    ELSE << fy_start_year, quarter_number + 1 >>

\* GetPreviousQuarter staying in the same financial year at the first quarter
GetPreviousQuarterSameFy(fy_start_year, quarter_number) ==
    IF quarter_number = 1
    THEN << fy_start_year, 4 >>
    ELSE << fy_start_year, quarter_number - 1 >>

GetPreviousQuarter(fy_start_year, quarter_number) ==
    IF quarter_number = 1
    THEN << fy_start_year - 1, 4 >>
    ELSE << fy_start_year, quarter_number - 1 >>

\* CalculateCurrentFinancialYear starting the financial year in May
CalculateCurrentFinancialYearFromMay(t) ==
    LET fy_start_year == IF MonthOf(t) > 4 THEN YearOf(t) ELSE YearOf(t) - 1
    IN  [ fy_string |-> << LastTwo(fy_start_year), LastTwo(fy_start_year + 1) >>,
          fy_start_year |-> fy_start_year ]

CalculateCurrentFinancialYear(t) ==
    LET fy_start_year == IF MonthOf(t) >= 4 THEN YearOf(t) ELSE YearOf(t) - 1
    IN  [ fy_string |-> << LastTwo(fy_start_year), LastTwo(fy_start_year + 1) >>,
          fy_start_year |-> fy_start_year ]

\* GetQuarterDates with a second quarter that ends a day early
GetQuarterDatesShortQ2(fy_start_year) ==
    << [ quarter_number |-> 1, start_date |-> MkDate(fy_start_year, 4, 1),
         end_date |-> MkDate(fy_start_year, 6, 30) ],
       [ quarter_number |-> 2, start_date |-> MkDate(fy_start_year, 7, 1),
         end_date |-> MkDate(fy_start_year, 9, 29) ],
       [ quarter_number |-> 3, start_date |-> MkDate(fy_start_year, 10, 1),
         end_date |-> MkDate(fy_start_year, 12, 31) ],
       [ quarter_number |-> 4, start_date |-> MkDate(fy_start_year + 1, 1, 1),
         end_date |-> MkDate(fy_start_year + 1, 3, 31) ] >>

GetQuarterDates(fy_start_year) ==
    << [ quarter_number |-> 1, start_date |-> MkDate(fy_start_year, 4, 1),
         end_date |-> MkDate(fy_start_year, 6, 30) ],
       [ quarter_number |-> 2, start_date |-> MkDate(fy_start_year, 7, 1),
         end_date |-> MkDate(fy_start_year, 9, 30) ],
       [ quarter_number |-> 3, start_date |-> MkDate(fy_start_year, 10, 1),
         end_date |-> MkDate(fy_start_year, 12, 31) ],
       [ quarter_number |-> 4, start_date |-> MkDate(fy_start_year + 1, 1, 1),
         end_date |-> MkDate(fy_start_year + 1, 3, 31) ] >>

\* DetermineQuarterStatus with the end date outside the quarter
DetermineQuarterStatusExclusive(quarter_start_date, quarter_end_date, t) ==
    IF t >= quarter_end_date THEN [ is_locked |-> FALSE, status |-> "completed" ]
    ELSE IF t >= quarter_start_date THEN [ is_locked |-> FALSE, status |-> "active" ]
    ELSE [ is_locked |-> TRUE, status |-> "inactive" ]

DetermineQuarterStatus(quarter_start_date, quarter_end_date, t) ==
    IF t > quarter_end_date THEN [ is_locked |-> FALSE, status |-> "completed" ]
    ELSE IF t >= quarter_start_date THEN [ is_locked |-> FALSE, status |-> "active" ]
    ELSE [ is_locked |-> TRUE, status |-> "inactive" ]

\* ----------------------------------------------------------------- state
Clients == 1 .. NumClients

VARIABLES
    today,        \* the wall clock, what date.today() returns
    fys,          \* committed rows of financial_years
    quarters,     \* committed rows of quarters
    \* quarter_transition_job / transition_quarters_to_current_state
    tPc,          \* position of the coroutine
    tToday,       \* its local today
    tCurIds,      \* current_fy_ids
    tPrevIds,     \* prev_fy_ids
    tWrites,      \* uncommitted UPDATEs of its session: quarter id -> new columns
    tCurUpd,      \* current_updated
    tPrevUpd,     \* previous_updated
    tRes,         \* the dict it returns
    \* financial_year_creation_job / create_financial_years_for_all_clients
    pPc,          \* position of the coroutine
    pTodo,        \* client_ids not yet iterated
    pIds,         \* client_ids, as returned by the gap scan
    pClient,      \* client_id of the running create_financial_year_with_quarters
    pFy,          \* the FinancialYear flushed in the open transaction, if any
    pStartYear,   \* fy_start_year of the running call
    pQs,          \* Quarter objects added to the session, not yet committed
    pOk,          \* success_count
    pFailCount,   \* failed_count
    pFailed,      \* failed_clients
    pRes,         \* the dict it returns, or the exception it raises
    \* history, for stating properties only
    tQ0,          \* the committed quarters when the transition run started
    tRepeat,      \* the run follows a successful run on the same date, nothing committed between
    tFresh,       \* a transition run committed on today's date and nothing was committed since
    pPersisted,   \* clients whose call committed rows in this provisioning run
    pRaised,      \* << client, await >> of every call that raised in this provisioning run
    \* a second execution of transition_quarters_to_current_state (SpecOverlap)
    t2,           \* its position, locals and pending UPDATEs, as one record
    \* a second execution of create_financial_years_for_all_clients (SpecProvOverlap)
    p2,           \* its position, locals and uncommitted rows, as one record
    \* main.py lifespan and the AsyncIOScheduler (SpecApp)
    app,          \* position of lifespan, scheduler.get_jobs(), scheduler.running
    \* the date functions (SpecFn)
    call,         \* the function last called, its arguments and what it returned
    \* history, for stating properties only (SpecInterval)
    qDaily        \* the quarter rows had a transition run committed on every clock date

tVars == << tPc, tToday, tCurIds, tPrevIds, tWrites, tCurUpd, tPrevUpd, tRes >>
tHist == << tQ0, tRepeat, tFresh >>
pVars == << pPc, pTodo, pIds, pClient, pFy, pStartYear, pQs, pOk, pFailCount, pFailed, pRes >>
pHist == << pPersisted, pRaised >>
db == << fys, quarters >>
ext == << t2, p2, app, call, qDaily >>
vars == << today, db, tVars, tHist, pVars, pHist, ext >>

NoRes == [ status |-> "none" ]
NoRow == [ id |-> 0 ]
EmptyWrites == [ i \in {} |-> NoRow ]

\* no second execution; lifespan not entered, scheduler = AsyncIOScheduler(); no call
T2Idle ==
    [ pc |-> "idle", today |-> 0, q0 |-> {}, cur_ids |-> {}, prev_ids |-> {},
      writes |-> EmptyWrites, cur_upd |-> 0, prev_upd |-> 0, res |-> NoRes ]
P2Idle ==
    [ pc |-> "idle", fys0 |-> {}, todo |-> {}, ids |-> {}, client |-> 0, fy |-> NoRow,
      start_year |-> 0, qs |-> {}, ok |-> 0, fail_count |-> 0, failed |-> << >>,
      res |-> NoRes ]
AppBoot == [ pc |-> "boot", jobs |-> {}, running |-> FALSE ]
NoCall == [ fn |-> "none" ]

\* neither job has started
JobsIdle ==
    /\ tPc = "idle" /\ tToday = 0 /\ tCurIds = {} /\ tPrevIds = {}
    /\ tWrites = EmptyWrites /\ tCurUpd = 0 /\ tPrevUpd = 0 /\ tRes = NoRes
    /\ pPc = "idle" /\ pTodo = {} /\ pIds = {} /\ pClient = 0 /\ pFy = NoRow
    /\ pStartYear = 0 /\ pQs = {} /\ pOk = 0 /\ pFailCount = 0 /\ pFailed = << >>
    /\ pRes = NoRes
    /\ tQ0 = {} /\ tRepeat = FALSE /\ tFresh = FALSE
    /\ pPersisted = {} /\ pRaised = {}

Init ==
    /\ today = FirstDate
    /\ fys = {}
    /\ quarters = {}
    /\ JobsIdle
    /\ t2 = T2Idle /\ p2 = P2Idle /\ app = AppBoot /\ call = NoCall /\ qDaily = {}

\* ----------------------------------------------------------------- clock
Tick ==
    /\ \E d \in ClockDates : d > today
    /\ today' = NextDate(today)
    /\ tFresh' = FALSE
    /\ UNCHANGED << db, tVars, tQ0, tRepeat, pVars, pHist >>

\* ------------------------------------------------- quarter transition job
\* The rows a session sees: the committed rows under its own pending UPDATEs.
Overlay(q, writes) ==
    IF q.id \in DOMAIN writes
    THEN [ q EXCEPT !.is_locked = writes[q.id].is_locked, !.status = writes[q.id].status ]
    ELSE q

TxView(rows, writes) == { Overlay(q, writes) : q \in rows }

\* SelectFyIds reading one row of the result (.first()) instead of all of them
SelectFyIdsFirst(label) ==
    LET ids == { f.id : f \in { g \in fys : g.financial_year = label } }
    IN  IF ids = {} THEN {} ELSE { CHOOSE i \in ids : TRUE }

\* SELECT FinancialYear.id WHERE financial_year == label
SelectFyIds(label) == { f.id : f \in { g \in fys : g.financial_year = label } }

\* MatchCurrent without the clause that skips rows already unlocked and active
MatchCurrentNoGuard(rows, fy_ids, q_num) ==
    { q \in rows : /\ q.financial_year_id \in fy_ids
                   /\ q.quarter_number = q_num }

\* WHERE clause of stmt_update_current
MatchCurrent(rows, fy_ids, q_num) ==
    { q \in rows : /\ q.financial_year_id \in fy_ids
                   /\ q.quarter_number = q_num
                   /\ (q.is_locked = TRUE \/ q.status # STATUS_ACTIVE) }

\* WHERE clause of stmt_update_prev
MatchPrevious(rows, fy_ids, q_prev) ==
    { q \in rows : /\ q.financial_year_id \in fy_ids
                   /\ q.quarter_number = q_prev
                   /\ q.status # STATUS_COMPLETED }

\* what the coroutine computed from its today
tCur == GetCurrentQuarterFromDate(tToday)
tPrev == GetPreviousQuarter(tCur[1], tCur[2])
tCurFyStr == FyString(tCur[1])
tPrevFyStr == FyString(tPrev[1])

ErrorResult(t, op) ==
    LET cur == GetCurrentQuarterFromDate(t)
        prev == GetPreviousQuarter(cur[1], cur[2])
    IN  [ status |-> "error",
          message |-> << "Database error", op >>,
          current_fy_q |-> << FyString(cur[1]), cur[2] >>,
          previous_fy_q |-> << FyString(prev[1]), prev[2] >>,
          current_quarters_updated |-> 0,
          previous_quarters_updated |-> 0 ]

\* TRollback calling commit where the handler calls rollback
TRollbackCommits(t, op) ==
    /\ quarters' = TxView(quarters, tWrites)
    /\ tWrites' = EmptyWrites
    /\ tRes' = ErrorResult(t, op)
    /\ tPc' = "done"
    /\ UNCHANGED << fys, tCurUpd, tPrevUpd >>

\* except SQLAlchemyError: rollback and return the error dict
TRollback(t, op) ==
    /\ tWrites' = EmptyWrites
    /\ tRes' = ErrorResult(t, op)
    /\ tPc' = "done"
    /\ UNCHANGED << db, tCurUpd, tPrevUpd >>

\* today = date.today(); ...; await db.execute(stmt_current)
TSelectCurrent ==
    /\ tPc = "idle"
    /\ pPc = "idle"
    /\ tToday' = today
    /\ tQ0' = quarters
    /\ tRepeat' = tFresh
    /\ UNCHANGED << tFresh, tPrevIds >>
    /\ \/ /\ tCurIds' = SelectFyIds(FyString(GetCurrentQuarterFromDate(today)[1]))
          /\ tPc' = "sel_prev"
          /\ UNCHANGED << db, tWrites, tCurUpd, tPrevUpd, tRes >>
       \/ /\ TRollback(today, "select_current")
          /\ UNCHANGED tCurIds
    /\ UNCHANGED << today, pVars, pHist >>

\* await db.execute(stmt_prev)
TSelectPrev ==
    /\ tPc = "sel_prev"
    /\ \/ /\ tPrevIds' = SelectFyIds(tPrevFyStr)
          /\ tPc' = "upd_cur"
          /\ UNCHANGED << db, tWrites, tCurUpd, tPrevUpd, tRes >>
       \/ /\ TRollback(tToday, "select_prev")
          /\ UNCHANGED tPrevIds
    /\ UNCHANGED << today, tToday, tCurIds, tHist, pVars, pHist >>

\* TUpdateCurrent on a session that commits every statement (autocommit)
TUpdateCurrentAutocommit ==
    /\ tPc = "upd_cur"
    /\ \/ /\ tCurIds = {}
          /\ tPc' = "upd_prev"
          /\ UNCHANGED << db, tWrites, tCurUpd, tPrevUpd, tRes >>
       \/ /\ tCurIds # {}
          /\ LET hit == MatchCurrent(TxView(quarters, tWrites), tCurIds, tCur[2])
                 new == [ i \in { q.id : q \in hit } |->
                            [ is_locked |-> FALSE, status |-> STATUS_ACTIVE ] ]
             IN  /\ quarters' = TxView(quarters, new @@ tWrites)
                 /\ tCurUpd' = Cardinality(hit)
          /\ tPc' = "upd_prev"
          /\ UNCHANGED << fys, tWrites, tPrevUpd, tRes >>
       \/ /\ tCurIds # {}
          /\ TRollback(tToday, "update_current")
    /\ UNCHANGED << today, tToday, tCurIds, tPrevIds, tHist, pVars, pHist >>

\* if current_fy_ids: await db.execute(stmt_update_current)
TUpdateCurrent ==
    /\ tPc = "upd_cur"
    /\ \/ /\ tCurIds = {}
          /\ tPc' = "upd_prev"
          /\ UNCHANGED << db, tWrites, tCurUpd, tPrevUpd, tRes >>
       \/ /\ tCurIds # {}
          /\ LET hit == MatchCurrent(TxView(quarters, tWrites), tCurIds, tCur[2])
                 new == [ i \in { q.id : q \in hit } |->
                            [ is_locked |-> FALSE, status |-> STATUS_ACTIVE ] ]
             IN  /\ tWrites' = new @@ tWrites
                 /\ tCurUpd' = Cardinality(hit)
          /\ tPc' = "upd_prev"
          /\ UNCHANGED << db, tPrevUpd, tRes >>
       \/ /\ tCurIds # {}
          /\ TRollback(tToday, "update_current")
    /\ UNCHANGED << today, tToday, tCurIds, tPrevIds, tHist, pVars, pHist >>

\* TUpdatePrev with values(is_locked=False, status=STATUS_COMPLETED)
TUpdatePrevUnlocks ==
    /\ tPc = "upd_prev"
    /\ \/ /\ tPrevIds = {}
          /\ tPc' = "commit"
          /\ UNCHANGED << db, tWrites, tCurUpd, tPrevUpd, tRes >>
       \/ /\ tPrevIds # {}
          /\ LET view == TxView(quarters, tWrites)
                 hit == MatchPrevious(view, tPrevIds, tPrev[2])
                 new == [ i \in { q.id : q \in hit } |->
                            [ is_locked |-> FALSE, status |-> STATUS_COMPLETED ] ]
             IN  /\ tWrites' = new @@ tWrites
                 /\ tPrevUpd' = Cardinality(hit)
          /\ tPc' = "commit"
          /\ UNCHANGED << db, tCurUpd, tRes >>
       \/ /\ tPrevIds # {}
          /\ TRollback(tToday, "update_prev")
    /\ UNCHANGED << today, tToday, tCurIds, tPrevIds, tHist, pVars, pHist >>

\* if prev_fy_ids: await db.execute(stmt_update_prev)
TUpdatePrev ==
    /\ tPc = "upd_prev"
    /\ \/ /\ tPrevIds = {}
          /\ tPc' = "commit"
          /\ UNCHANGED << db, tWrites, tCurUpd, tPrevUpd, tRes >>
       \/ /\ tPrevIds # {}
          /\ LET view == TxView(quarters, tWrites)
                 hit == MatchPrevious(view, tPrevIds, tPrev[2])
                 new == [ i \in { q.id : q \in hit } |->
                            [ is_locked |-> (CHOOSE q \in hit : q.id = i).is_locked,
                              status |-> STATUS_COMPLETED ] ]
             IN  /\ tWrites' = new @@ tWrites
                 /\ tPrevUpd' = Cardinality(hit)
          /\ tPc' = "commit"
          /\ UNCHANGED << db, tCurUpd, tRes >>
       \/ /\ tPrevIds # {}
          /\ TRollback(tToday, "update_prev")
    /\ UNCHANGED << today, tToday, tCurIds, tPrevIds, tHist, pVars, pHist >>

\* await db.commit(); return the success dict
TCommit ==
    /\ tPc = "commit"
    /\ \/ /\ quarters' = TxView(quarters, tWrites)
          /\ tWrites' = EmptyWrites
          /\ tRes' = [ status |-> "success",
                       message |-> << "Quarter transition completed" >>,
                       current_fy_q |-> << tCurFyStr, tCur[2] >>,
                       previous_fy_q |-> << tPrevFyStr, tPrev[2] >>,
                       current_quarters_updated |-> tCurUpd,
                       previous_quarters_updated |-> tPrevUpd ]
          /\ tPc' = "done"
          /\ tFresh' = (tToday = today)
          /\ UNCHANGED << fys, tCurUpd, tPrevUpd, tQ0, tRepeat >>
       \/ /\ TRollback(tToday, "commit")
          /\ UNCHANGED tHist
    /\ UNCHANGED << today, tToday, tCurIds, tPrevIds, pVars, pHist >>

\* quarter_transition_job logs the result and ends
TFinish ==
    /\ tPc = "done"
    /\ tPc' = "idle"
    /\ tToday' = 0 /\ tCurIds' = {} /\ tPrevIds' = {}
    /\ tCurUpd' = 0 /\ tPrevUpd' = 0 /\ tRes' = NoRes
    /\ tQ0' = {} /\ tRepeat' = FALSE
    /\ UNCHANGED << today, db, tWrites, tFresh, pVars, pHist >>

\* UpdateCurrentRows written as a toggle of every row of the quarter instead of
\* an assignment to the rows not yet in the target state
UpdateCurrentRowsToggle(view, fy_ids, q_num) ==
    LET hit == MatchCurrentNoGuard(view, fy_ids, q_num)
    IN  [ i \in { q.id : q \in hit } |->
            [ is_locked |-> ~ (CHOOSE q \in hit : q.id = i).is_locked,
              status |-> IF (CHOOSE q \in hit : q.id = i).status = STATUS_ACTIVE
                         THEN "inactive" ELSE STATUS_ACTIVE ] ]

\* The rows stmt_update_current changes, with the values it sets.
UpdateCurrentRows(view, fy_ids, q_num) ==
    [ i \in { q.id : q \in MatchCurrent(view, fy_ids, q_num) } |->
        [ is_locked |-> FALSE, status |-> STATUS_ACTIVE ] ]

\* The rows stmt_update_prev changes, with the values it sets (is_locked is not
\* among them, so it keeps what the row has).
UpdatePreviousRows(view, fy_ids, q_prev) ==
    LET hit == MatchPrevious(view, fy_ids, q_prev)
    IN  [ i \in { q.id : q \in hit } |->
            [ is_locked |-> (CHOOSE q \in hit : q.id = i).is_locked,
              status |-> STATUS_COMPLETED ] ]

\* One execution of transition_quarters_to_current_state that reads the date t,
\* meets no error and no other session, and commits: the rows it leaves.
RunTransition(rows, t) ==
    LET cur == GetCurrentQuarterFromDate(t)
        prev == GetPreviousQuarter(cur[1], cur[2])
        w1 == UpdateCurrentRows(rows, SelectFyIds(FyString(cur[1])), cur[2])
        w2 == UpdatePreviousRows(TxView(rows, w1), SelectFyIds(FyString(prev[1])), prev[2])
    IN  TxView(rows, w2 @@ w1)

\* --------------------------------------------- financial year creation job
\* default=uuid4: an id no other row carries.  The id of a FinancialYear names
\* its client, its label and how many committed rows of that client and label
\* came before it; the id of a Quarter names its FinancialYear and its place in
\* the list create_quarters_for_financial_year builds.
FreshFyId(client_id, label) ==
    << client_id, label,
       Cardinality({ f \in fys : f.client_id = client_id /\ f.financial_year = label }) >>
FreshQuarterId(financial_year_id, n) == << financial_year_id, n >>

\* ClientsWithoutCurrentFy whose subquery looks for the label of the year before
ClientsWithoutCurrentFyWrongLabel(t) ==
    LET current_fy == FyString(CalculateCurrentFinancialYear(t).fy_start_year - 1)
    IN  { c \in Clients :
            c \notin { f.client_id : f \in { g \in fys : g.financial_year = current_fy } } }

\* ClientsWithoutCurrentFy whose subquery does not filter on the label
ClientsWithoutAnyFy(t) ==
    { c \in Clients : c \notin { f.client_id : f \in fys } }

\* SELECT Client.id WHERE Client.id NOT IN
\*   (SELECT client_id FROM financial_years WHERE financial_year == current_fy)
ClientsWithoutCurrentFy(t) ==
    LET current_fy == CalculateCurrentFinancialYear(t).fy_string
    IN  { c \in Clients :
            c \notin { f.client_id : f \in { g \in fys : g.financial_year = current_fy } } }

\* NewFinancialYear with the return date on the FY's own end date
NewFinancialYearReturnAtEnd(id, client_id, t) ==
    LET fy == CalculateCurrentFinancialYear(t)
    IN  [ id |-> id,
          client_id |-> client_id,
          financial_year |-> fy.fy_string,
          start_date |-> MkDate(fy.fy_start_year, 4, 1),
          end_date |-> MkDate(fy.fy_start_year + 1, 3, 31),
          return_date |-> MkDate(fy.fy_start_year + 1, 3, 31),
          status |-> "active" ]

\* FinancialYear(client_id=..., financial_year=fy_string, ...)
NewFinancialYear(id, client_id, t) ==
    LET fy == CalculateCurrentFinancialYear(t)
    IN  [ id |-> id,
          client_id |-> client_id,
          financial_year |-> fy.fy_string,
          start_date |-> MkDate(fy.fy_start_year, 4, 1),
          end_date |-> MkDate(fy.fy_start_year + 1, 3, 31),
          return_date |-> MkDate(fy.fy_start_year + 1, 7, 31),
          status |-> "active" ]

\* create_quarters_for_financial_year: one Quarter per entry of get_quarter_dates
NewQuarters(financial_year_id, fy_start_year, t) ==
    { [ id |-> FreshQuarterId(financial_year_id, n),
        financial_year_id |-> financial_year_id,
        quarter_number |-> GetQuarterDates(fy_start_year)[n].quarter_number,
        start_date |-> GetQuarterDates(fy_start_year)[n].start_date,
        end_date |-> GetQuarterDates(fy_start_year)[n].end_date,
        is_locked |-> DetermineQuarterStatus(GetQuarterDates(fy_start_year)[n].start_date,
                                             GetQuarterDates(fy_start_year)[n].end_date,
                                             t).is_locked,
        status |-> DetermineQuarterStatus(GetQuarterDates(fy_start_year)[n].start_date,
                                          GetQuarterDates(fy_start_year)[n].end_date,
                                          t).status ]
      : n \in 1 .. Len(GetQuarterDates(fy_start_year)) }

\* PFailClient in a loop that does not catch: the exception ends the run
PFailClientReraises(c, op) ==
    /\ pFy' = NoRow
    /\ pQs' = {}
    /\ pStartYear' = 0
    /\ pRaised' = pRaised \cup { << c, op >> }
    /\ pRes' = [ status |-> "raised" ]
    /\ pPc' = "done"
    /\ UNCHANGED << db, pOk, pFailCount, pFailed, pIds, pPersisted >>

\* create_financial_year_with_quarters: except ...: rollback, raise HTTPException;
\* the loop of create_financial_years_for_all_clients catches it and goes on
PFailClient(c, op) ==
    /\ pFy' = NoRow
    /\ pQs' = {}
    /\ pStartYear' = 0
    /\ pFailCount' = pFailCount + 1
    /\ pFailed' = Append(pFailed, c)
    /\ pRaised' = pRaised \cup { << c, op >> }
    /\ pPc' = "loop"
    /\ UNCHANGED << db, pOk, pRes, pIds, pPersisted >>

\* client_ids = await get_clients_without_current_fy(db)
PScan ==
    /\ pPc = "idle"
    /\ tPc = "idle"
    /\ \/ /\ ClientsWithoutCurrentFy(today) # {}
          /\ pIds' = ClientsWithoutCurrentFy(today)
          /\ pTodo' = ClientsWithoutCurrentFy(today)
          /\ pPc' = "loop"
          /\ UNCHANGED pRes
       \/ /\ ClientsWithoutCurrentFy(today) = {}
          /\ pRes' = [ status |-> "success",
                       message |-> << "No clients need financial year creation" >>,
                       clients_processed |-> 0,
                       financial_years_created |-> 0,
                       quarters_created |-> 0 ]
          /\ pPc' = "done"
          /\ UNCHANGED << pIds, pTodo >>
       \/ /\ pRes' = [ status |-> "raised" ]
          /\ pPc' = "done"
          /\ UNCHANGED << pIds, pTodo >>
    /\ UNCHANGED << today, db, tVars, tHist, pClient, pFy, pStartYear, pQs, pOk,
                    pFailCount, pFailed, pHist >>

\* PFlush calling commit where the code calls flush
PFlushCommits ==
    /\ pPc = "loop"
    /\ \E c \in pTodo :
         /\ pTodo' = pTodo \ { c }
         /\ pClient' = c
         /\ \/ /\ pFy' = NewFinancialYear(FreshFyId(c, CalculateCurrentFinancialYear(today).fy_string), c, today)
               /\ fys' = fys \cup { pFy' }
               /\ pStartYear' = CalculateCurrentFinancialYear(today).fy_start_year
               /\ pPc' = "quarters"
               /\ UNCHANGED << quarters, pQs, pOk, pFailCount, pFailed, pRes, pIds, pHist >>
            \/ PFailClient(c, "flush")
    /\ UNCHANGED << today, tVars, tHist >>

\* for client_id in client_ids: ... db.add(financial_year); await db.flush()
PFlush ==
    /\ pPc = "loop"
    /\ \E c \in pTodo :
         /\ pTodo' = pTodo \ { c }
         /\ pClient' = c
         /\ \/ /\ pFy' = NewFinancialYear(FreshFyId(c, CalculateCurrentFinancialYear(today).fy_string), c, today)
               /\ pStartYear' = CalculateCurrentFinancialYear(today).fy_start_year
               /\ pPc' = "quarters"
               /\ UNCHANGED << db, pQs, pOk, pFailCount, pFailed, pRes, pIds, pHist >>
            \/ PFailClient(c, "flush")
    /\ UNCHANGED << today, tVars, tHist >>

\* quarters = await create_quarters_for_financial_year(financial_year.id, fy_start_year, db)
PQuarters ==
    /\ pPc = "quarters"
    /\ pQs' = NewQuarters(pFy.id, pStartYear, today)
    /\ pPc' = "commit"
    /\ UNCHANGED << today, db, tVars, tHist, pTodo, pIds, pClient, pFy, pStartYear,
                    pOk, pFailCount, pFailed, pRes, pHist >>

\* await db.commit()
PCommit ==
    /\ pPc = "commit"
    /\ \/ /\ fys' = fys \cup { pFy }
          /\ quarters' = quarters \cup pQs
          /\ pFy' = NoRow
          /\ pQs' = {}
          /\ pPersisted' = pPersisted \cup { pClient }
          /\ pPc' = "refresh"
          /\ tFresh' = FALSE
          /\ UNCHANGED << pTodo, pIds, pClient, pStartYear, pOk, pFailCount, pFailed,
                          pRes, pRaised, tQ0, tRepeat >>
       \/ /\ PFailClient(pClient, "commit")
          /\ UNCHANGED << pTodo, pClient, tHist >>
    /\ UNCHANGED << today, tVars >>

\* await db.refresh(financial_year); return financial_year; success_count += 1
PRefresh ==
    /\ pPc = "refresh"
    /\ \/ /\ pOk' = pOk + 1
          /\ pStartYear' = 0
          /\ pPc' = "loop"
          /\ UNCHANGED << db, pFy, pQs, pFailCount, pFailed, pRes, pIds, pHist >>
       \/ PFailClient(pClient, "refresh")
    /\ UNCHANGED << today, tVars, tHist, pTodo, pClient >>

\* the loop ended: build and return the summary dict
PReturn ==
    /\ pPc = "loop"
    /\ pTodo = {}
    /\ pRes' = [ status |-> IF pFailCount = 0 THEN "success" ELSE "partial",
                 message |-> << "Created financial years for", pOk >>,
                 clients_processed |-> Cardinality(pIds),
                 financial_years_created |-> pOk,
                 quarters_created |-> pOk * 4,
                 failed_count |-> pFailCount,
                 failed_clients |-> IF pFailed # << >> THEN pFailed ELSE << "None" >> ]
    /\ pPc' = "done"
    /\ UNCHANGED << today, db, tVars, tHist, pTodo, pIds, pClient, pFy, pStartYear, pQs,
                    pOk, pFailCount, pFailed, pHist >>

\* financial_year_creation_job logs the result (or re-raises) and ends
PFinish ==
    /\ pPc = "done"
    /\ pPc' = "idle"
    /\ pTodo' = {} /\ pIds' = {} /\ pClient' = 0 /\ pOk' = 0 /\ pFailCount' = 0
    /\ pFailed' = << >> /\ pRes' = NoRes /\ pPersisted' = {} /\ pRaised' = {}
    /\ UNCHANGED << today, db, tVars, tHist, pFy, pStartYear, pQs >>

\* ------------------------------------------------------------------ system
Next ==
    \/ Tick /\ UNCHANGED ext
    \/ TSelectCurrent /\ UNCHANGED ext
    \/ TSelectPrev /\ UNCHANGED ext
    \/ TUpdateCurrent /\ UNCHANGED ext
    \/ TUpdatePrev /\ UNCHANGED ext
    \/ TCommit /\ UNCHANGED ext
    \/ TFinish /\ UNCHANGED ext
    \/ PScan /\ UNCHANGED ext
    \/ PFlush /\ UNCHANGED ext
    \/ PQuarters /\ UNCHANGED ext
    \/ PCommit /\ UNCHANGED ext
    \/ PRefresh /\ UNCHANGED ext
    \/ PReturn /\ UNCHANGED ext
    \/ PFinish /\ UNCHANGED ext

Spec == Init /\ [][Next]_vars

\* ------------------------------------- the transition job at any interval
\* The tables after create_financial_years_for_all_clients ran on date p on an
\* empty financial_years table and every client's call succeeded.
ProvisionedFys(p) ==
    { NewFinancialYear(<< c, CalculateCurrentFinancialYear(p).fy_string, 0 >>, c, p)
      : c \in Clients }
ProvisionedQuarters(p) ==
    UNION { NewQuarters(f.id, CalculateCurrentFinancialYear(p).fy_start_year, p)
            : f \in ProvisionedFys(p) }

InitInterval ==
    /\ \E p \in ClockDates :
          /\ today = p
          /\ fys = ProvisionedFys(p)
          /\ quarters = ProvisionedQuarters(p)
          /\ qDaily = ProvisionedQuarters(p)
    /\ JobsIdle
    /\ t2 = T2Idle /\ p2 = P2Idle /\ app = AppBoot /\ call = NoCall

\* the clock reaches the next date, and the reference rows get that date's run
TickDaily ==
    /\ Tick
    /\ qDaily' = RunTransition(qDaily, today')
    /\ UNCHANGED << t2, p2, app, call >>

NextInterval ==
    \/ TickDaily
    \/ TSelectCurrent /\ UNCHANGED ext
    \/ TSelectPrev /\ UNCHANGED ext
    \/ TUpdateCurrent /\ UNCHANGED ext
    \/ TUpdatePrev /\ UNCHANGED ext
    \/ TCommit /\ UNCHANGED ext
    \/ TFinish /\ UNCHANGED ext

SpecInterval == InitInterval /\ [][NextInterval]_vars

\* -------------------------------------------------------------- properties
\* What a run at date t is to target, worked out from the calendar alone.
ExpectedFyStart(t) == IF MonthOf(t) \in 4 .. 12 THEN YearOf(t) ELSE YearOf(t) - 1
ExpectedQuarter(t) == ((MonthOf(t) + 8) % 12) \div 3 + 1
ExpectedPrevFyStart(t) ==
    IF ExpectedQuarter(t) = 1 THEN ExpectedFyStart(t) - 1 ELSE ExpectedFyStart(t)
ExpectedPrevQuarter(t) == IF ExpectedQuarter(t) = 1 THEN 4 ELSE ExpectedQuarter(t) - 1
Label(y) == << y % 100, (y + 1) % 100 >>

\* the label of the FinancialYear a quarter row belongs to
LabelOf(q) == (CHOOSE f \in fys : f.id = q.financial_year_id).financial_year
QuartersOf(f) == { q \in quarters : q.financial_year_id = f.id }
Rank(status) == IF status = "inactive" THEN 0 ELSE IF status = "active" THEN 1 ELSE 2
Range(seq) == { seq[i] : i \in 1 .. Len(seq) }

\* C1: a transition run that follows a committed run on the same date, with
\* nothing committed in between, reports zero rows updated in both steps and
\* leaves every quarter row as the first run left it.
C1_TransitionIdempotent ==
    (tPc = "done" /\ tRepeat) =>
        /\ tRes.current_quarters_updated = 0
        /\ tRes.previous_quarters_updated = 0
        /\ quarters = tQ0

C1_Witness ==
    /\ tPc = "done" /\ tRepeat /\ tRes.status = "success"
    /\ \E q \in quarters : q.financial_year_id \in tCurIds /\ q.quarter_number = tCur[2]
    /\ \E q \in quarters : q.financial_year_id \in tPrevIds /\ q.quarter_number = tPrev[2]

\* C2: in every committed state each FinancialYear has at most one quarter
\* whose status is active.
C2_AtMostOneActive ==
    \A f \in fys : Cardinality({ q \in QuartersOf(f) : q.status = "active" }) <= 1

C4_TransitionAtomic ==
    [][ (\E q \in quarters : q \notin quarters') =>
            \A r \in quarters' :
               /\ (r.financial_year_id \in tCurIds /\ r.quarter_number = tCur[2])
                     => (r.is_locked = FALSE /\ r.status = "active")
               /\ (r.financial_year_id \in tPrevIds /\ r.quarter_number = tPrev[2])
                     => r.status = "completed" ]_vars

C4_Witness ==
    /\ tPc = "done" /\ tRes.status = "success"
    /\ tRes.current_quarters_updated > 0
    /\ tRes.previous_quarters_updated > 0
    /\ quarters # tQ0

\* C5: a transition run that ends in error has changed no quarter row, holds no
\* pending update, and returns the attempted current and previous (label,
\* quarter) identities, the operation that failed, and zero for both counts.
C5_TransitionErrorRollsBack ==
    (tPc = "done" /\ tRes.status = "error") =>
        /\ quarters = tQ0
        /\ tWrites = EmptyWrites
        /\ tRes.current_fy_q = << Label(ExpectedFyStart(tToday)), ExpectedQuarter(tToday) >>
        /\ tRes.previous_fy_q =
              << Label(ExpectedPrevFyStart(tToday)), ExpectedPrevQuarter(tToday) >>
        /\ tRes.message[1] = "Database error"
        /\ tRes.message[2] \in { "select_current", "select_prev", "update_current",
                                 "update_prev", "commit" }
        /\ tRes.current_quarters_updated = 0
        /\ tRes.previous_quarters_updated = 0

C5_Witness ==
    /\ tPc = "done" /\ tRes.status = "error"
    /\ tRes.message[2] = "commit"
    /\ tCurUpd > 0 /\ tPrevUpd > 0

C7_FourQuartersPerFy ==
    /\ \A f \in fys :
          /\ Cardinality(QuartersOf(f)) = 4
          /\ { q.quarter_number : q \in QuartersOf(f) } = 1 .. 4
    /\ \A q \in quarters : \E f \in fys : f.id = q.financial_year_id

C7_Witness ==
    /\ fys # {}
    /\ \E r \in pRaised : r[2] = "commit"
    /\ pPersisted # {}

\* C8: a provisioning run that found clients returns a summary whatever failed:
\* every client of the scan whose call did not raise has a committed
\* FinancialYear with four quarters from this run, failed_clients lists exactly
\* the clients whose call raised, each once, and failed_count is their number.
C8_ProvisioningIsolation ==
    (pPc = "done" /\ pIds # {}) =>
        LET failing == { r[1] : r \in pRaised }
        IN  /\ pRes.status \in { "success", "partial" }
            /\ \A c \in pIds \ failing :
                  /\ c \in pPersisted
                  /\ \E f \in fys : /\ f.client_id = c
                                    /\ { q.quarter_number : q \in QuartersOf(f) } = 1 .. 4
            /\ pRes.failed_count = Cardinality(failing)
            /\ IF failing = {}
               THEN pRes.failed_clients = << "None" >>
               ELSE /\ Range(pRes.failed_clients) = failing
                    /\ Len(pRes.failed_clients) = Cardinality(failing)

C8_Witness ==
    /\ pPc = "done" /\ pIds = Clients
    /\ pRes.status = "partial"
    /\ pRes.failed_count = 1
    /\ \E r \in pRaised : r[2] = "commit"
    /\ Cardinality(pPersisted) = NumClients - 1

\* C9: a client whose call raised has no row persisted by that call.
C9_FailedPersistsNothing ==
    \A r \in pRaised : r[1] \notin pPersisted

\* C10: there is at most one FinancialYear row for each client and label.
C10_FyUnique ==
    \A f \in fys : \A g \in fys :
        (f.client_id = g.client_id /\ f.financial_year = g.financial_year) => f = g

C10_Witness ==
    /\ pPc = "done"
    /\ pIds # {} /\ pIds # Clients
    /\ pPersisted = pIds
    /\ \A c \in Clients : \E f \in fys : f.client_id = c

\* ------------------------------- two executions of the transition job at once
\* The second execution runs the same statements on a session of its own.  A
\* session reads the committed rows under its own pending UPDATEs and its
\* commit writes those UPDATEs over the committed rows; no statement waits for
\* the other session, so every order of the two executions' statements occurs.
t2Cur == GetCurrentQuarterFromDate(t2.today)
t2Prev == GetPreviousQuarter(t2Cur[1], t2Cur[2])

\* except SQLAlchemyError: rollback and return the error dict
T2Rollback(t, op) ==
    [ t2 EXCEPT !.pc = "done", !.writes = EmptyWrites, !.res = ErrorResult(t, op) ]

T2Frame == UNCHANGED << today, fys, tVars, tHist, pVars, pHist, p2, app, call, qDaily >>

\* today = date.today(); ...; await db.execute(stmt_current)
T2SelectCurrent ==
    /\ t2.pc = "idle"
    /\ \/ t2' = [ T2Idle EXCEPT !.pc = "sel_prev", !.today = today, !.q0 = quarters,
                                 !.cur_ids = SelectFyIds(FyString(GetCurrentQuarterFromDate(today)[1])) ]
       \/ t2' = [ T2Idle EXCEPT !.pc = "done", !.today = today, !.q0 = quarters,
                                 !.res = ErrorResult(today, "select_current") ]
    /\ UNCHANGED quarters
    /\ T2Frame

\* await db.execute(stmt_prev)
T2SelectPrev ==
    /\ t2.pc = "sel_prev"
    /\ \/ t2' = [ t2 EXCEPT !.pc = "upd_cur", !.prev_ids = SelectFyIds(FyString(t2Prev[1])) ]
       \/ t2' = T2Rollback(t2.today, "select_prev")
    /\ UNCHANGED quarters
    /\ T2Frame

\* if current_fy_ids: await db.execute(stmt_update_current)
T2UpdateCurrent ==
    /\ t2.pc = "upd_cur"
    /\ \/ /\ t2.cur_ids = {}
          /\ t2' = [ t2 EXCEPT !.pc = "upd_prev" ]
       \/ /\ t2.cur_ids # {}
          /\ LET new == UpdateCurrentRows(TxView(quarters, t2.writes), t2.cur_ids, t2Cur[2])
             IN  t2' = [ t2 EXCEPT !.pc = "upd_prev", !.writes = new @@ t2.writes,
                                   !.cur_upd = Cardinality(DOMAIN new) ]
       \/ /\ t2.cur_ids # {}
          /\ t2' = T2Rollback(t2.today, "update_current")
    /\ UNCHANGED quarters
    /\ T2Frame

\* if prev_fy_ids: await db.execute(stmt_update_prev)
T2UpdatePrev ==
    /\ t2.pc = "upd_prev"
    /\ \/ /\ t2.prev_ids = {}
          /\ t2' = [ t2 EXCEPT !.pc = "commit" ]
       \/ /\ t2.prev_ids # {}
          /\ LET new == UpdatePreviousRows(TxView(quarters, t2.writes), t2.prev_ids, t2Prev[2])
             IN  t2' = [ t2 EXCEPT !.pc = "commit", !.writes = new @@ t2.writes,
                                   !.prev_upd = Cardinality(DOMAIN new) ]
       \/ /\ t2.prev_ids # {}
          /\ t2' = T2Rollback(t2.today, "update_prev")
    /\ UNCHANGED quarters
    /\ T2Frame

\* await db.commit(); return the success dict
T2Commit ==
    /\ t2.pc = "commit"
    /\ \/ /\ quarters' = TxView(quarters, t2.writes)
          /\ t2' = [ t2 EXCEPT !.pc = "done", !.writes = EmptyWrites,
                                !.res = [ status |-> "success",
                                          message |-> << "Quarter transition completed" >>,
                                          current_fy_q |-> << FyString(t2Cur[1]), t2Cur[2] >>,
                                          previous_fy_q |-> << FyString(t2Prev[1]), t2Prev[2] >>,
                                          current_quarters_updated |-> t2.cur_upd,
                                          previous_quarters_updated |-> t2.prev_upd ] ]
       \/ /\ t2' = T2Rollback(t2.today, "commit")
          /\ UNCHANGED quarters
    /\ T2Frame

InitOverlap ==
    /\ \E p \in ClockDates :
          /\ today = p
          /\ fys = ProvisionedFys(p)
          /\ quarters = ProvisionedQuarters(p)
    /\ JobsIdle
    /\ t2 = T2Idle /\ p2 = P2Idle /\ app = AppBoot /\ call = NoCall /\ qDaily = {}

\* Each of the two executions runs once, at whatever date the clock has reached.
NextOverlap ==
    \/ Tick /\ UNCHANGED ext
    \/ TSelectCurrent /\ UNCHANGED ext
    \/ TSelectPrev /\ UNCHANGED ext
    \/ TUpdateCurrent /\ UNCHANGED ext
    \/ TUpdatePrev /\ UNCHANGED ext
    \/ TCommit /\ UNCHANGED ext
    \/ T2SelectCurrent \/ T2SelectPrev \/ T2UpdateCurrent \/ T2UpdatePrev
    \/ T2Commit

SpecOverlap == InitOverlap /\ [][NextOverlap]_vars

\* ------------------------- two executions of the provisioning job at once
\* The second execution runs the same code on a session of its own.
\* default=uuid4: its ids are drawn apart from those of the first execution.
FreshFyId2(client_id, label) ==
    << client_id, label,
       0 - 1 - Cardinality({ f \in fys : f.client_id = client_id /\ f.financial_year = label }) >>

\* except ...: rollback, raise HTTPException; the loop catches it and goes on
P2FailClient(c) ==
    [ p2 EXCEPT !.pc = "loop", !.fy = NoRow, !.qs = {}, !.start_year = 0,
                !.fail_count = p2.fail_count + 1, !.failed = Append(p2.failed, c) ]

P2Frame == UNCHANGED << today, tVars, tHist, pVars, pHist, t2, app, call, qDaily >>

\* client_ids = await get_clients_without_current_fy(db)
P2Scan ==
    /\ p2.pc = "idle"
    /\ \/ /\ ClientsWithoutCurrentFy(today) # {}
          /\ p2' = [ P2Idle EXCEPT !.pc = "loop", !.fys0 = fys,
                                   !.ids = ClientsWithoutCurrentFy(today),
                                   !.todo = ClientsWithoutCurrentFy(today) ]
       \/ /\ ClientsWithoutCurrentFy(today) = {}
          /\ p2' = [ P2Idle EXCEPT !.pc = "done", !.fys0 = fys,
                                   !.res = [ status |-> "success",
                                             message |-> << "No clients need financial year creation" >>,
                                             clients_processed |-> 0,
                                             financial_years_created |-> 0,
                                             quarters_created |-> 0 ] ]
       \/ p2' = [ P2Idle EXCEPT !.pc = "done", !.fys0 = fys, !.res = [ status |-> "raised" ] ]
    /\ UNCHANGED db
    /\ P2Frame

\* for client_id in client_ids: ... db.add(financial_year); await db.flush()
P2Flush ==
    /\ p2.pc = "loop"
    /\ \E c \in p2.todo :
          \/ p2' = [ p2 EXCEPT !.pc = "quarters", !.todo = p2.todo \ { c }, !.client = c,
                     !.fy = NewFinancialYear(
                                FreshFyId2(c, CalculateCurrentFinancialYear(today).fy_string),
                                c, today),
                     !.start_year = CalculateCurrentFinancialYear(today).fy_start_year ]
          \/ p2' = [ P2FailClient(c) EXCEPT !.todo = p2.todo \ { c }, !.client = c ]
    /\ UNCHANGED db
    /\ P2Frame

\* quarters = await create_quarters_for_financial_year(financial_year.id, fy_start_year, db)
P2Quarters ==
    /\ p2.pc = "quarters"
    /\ p2' = [ p2 EXCEPT !.pc = "commit", !.qs = NewQuarters(p2.fy.id, p2.start_year, today) ]
    /\ UNCHANGED db
    /\ P2Frame

\* await db.commit()
P2Commit ==
    /\ p2.pc = "commit"
    /\ \/ /\ fys' = fys \cup { p2.fy }
          /\ quarters' = quarters \cup p2.qs
          /\ p2' = [ p2 EXCEPT !.pc = "refresh", !.fy = NoRow, !.qs = {} ]
       \/ /\ p2' = P2FailClient(p2.client)
          /\ UNCHANGED db
    /\ P2Frame

\* await db.refresh(financial_year); return financial_year; success_count += 1
P2Refresh ==
    /\ p2.pc = "refresh"
    /\ \/ p2' = [ p2 EXCEPT !.pc = "loop", !.ok = p2.ok + 1, !.start_year = 0 ]
       \/ p2' = P2FailClient(p2.client)
    /\ UNCHANGED db
    /\ P2Frame

\* the loop ended: build and return the summary dict
P2Return ==
    /\ p2.pc = "loop"
    /\ p2.todo = {}
    /\ p2' = [ p2 EXCEPT !.pc = "done",
                         !.res = [ status |-> IF p2.fail_count = 0 THEN "success" ELSE "partial",
                                   message |-> << "Created financial years for", p2.ok >>,
                                   clients_processed |-> Cardinality(p2.ids),
                                   financial_years_created |-> p2.ok,
                                   quarters_created |-> p2.ok * 4,
                                   failed_count |-> p2.fail_count,
                                   failed_clients |-> IF p2.failed # << >> THEN p2.failed
                                                      ELSE << "None" >> ] ]
    /\ UNCHANGED db
    /\ P2Frame

InitProvOverlap ==
    /\ today \in ClockDates
    /\ fys = {}
    /\ quarters = {}
    /\ JobsIdle
    /\ t2 = T2Idle /\ p2 = P2Idle /\ app = AppBoot /\ call = NoCall /\ qDaily = {}

\* Each of the two executions runs once, both on the date the clock shows.
NextProvOverlap ==
    \/ PScan /\ UNCHANGED ext
    \/ PFlush /\ UNCHANGED ext
    \/ PQuarters /\ UNCHANGED ext
    \/ PCommit /\ UNCHANGED ext
    \/ PRefresh /\ UNCHANGED ext
    \/ PReturn /\ UNCHANGED ext
    \/ P2Scan \/ P2Flush \/ P2Quarters \/ P2Commit \/ P2Refresh \/ P2Return

SpecProvOverlap == InitProvOverlap /\ [][NextProvOverlap]_vars

\* ------------------------------------------- provisioning run twice on a date
\* Some clients were provisioned on an earlier date p; the clock shows d and
\* stays there.
InitRerun ==
    /\ \E d \in ClockDates : \E p \in ClockDates : \E S \in SUBSET Clients :
          /\ p <= d
          /\ today = d
          /\ fys = { f \in ProvisionedFys(p) : f.client_id \in S }
          /\ quarters = { q \in ProvisionedQuarters(p) :
                            \E f \in ProvisionedFys(p) :
                                f.client_id \in S /\ q.financial_year_id = f.id }
    /\ JobsIdle
    /\ t2 = T2Idle /\ p2 = P2Idle /\ app = AppBoot /\ call = NoCall /\ qDaily = {}

\* One execution of create_financial_years_for_all_clients, and a second one
\* that starts once the first has returned.
NextRerun ==
    \/ PScan /\ UNCHANGED ext
    \/ PFlush /\ UNCHANGED ext
    \/ PQuarters /\ UNCHANGED ext
    \/ PCommit /\ UNCHANGED ext
    \/ PRefresh /\ UNCHANGED ext
    \/ PReturn /\ UNCHANGED ext
    \/ (pPc = "done" /\ P2Scan)
    \/ P2Flush \/ P2Quarters \/ P2Commit \/ P2Refresh \/ P2Return

SpecRerun == InitRerun /\ [][NextRerun]_vars

\* ------------------------------------------- the application as it starts
\* scheduler.add_job(financial_year_creation_job, ..., id=..., max_instances=1)
FyJob == [ id |-> "financial_year_creation_job", max_instances |-> 1 ]

\* the executions of a job that have not ended
Instances(id) ==
    IF id = "financial_year_creation_job"
    THEN IF pPc = "idle" THEN 0 ELSE 1
    ELSE IF tPc = "idle" THEN 0 ELSE 1

\* the coroutine a job id was registered with, entered
JobStart(id) ==
    IF id = "financial_year_creation_job" THEN PScan ELSE TSelectCurrent

\* lifespan: await setup_financial_year_job(), which first awaits
\* financial_year_creation_job()
LifespanRunInitialJob ==
    /\ app.pc = "boot"
    /\ PScan
    /\ app' = [ app EXCEPT !.pc = "initial_job" ]
    /\ UNCHANGED << t2, p2, call, qDaily >>

\* the initial job returned: scheduler.add_job(...), then start_scheduler()
LifespanStart ==
    /\ app.pc = "initial_job"
    /\ pRes.status # "raised"
    /\ PFinish
    /\ app' = [ pc |-> "started", jobs |-> app.jobs \cup { FyJob }, running |-> TRUE ]
    /\ UNCHANGED << t2, p2, call, qDaily >>

\* LifespanFail in a lifespan that logs the exception and goes on to register
\* the job and start the scheduler
LifespanFailSwallowed ==
    /\ app.pc = "initial_job"
    /\ pRes.status = "raised"
    /\ PFinish
    /\ app' = [ pc |-> "started", jobs |-> app.jobs \cup { FyJob }, running |-> TRUE ]
    /\ UNCHANGED << t2, p2, call, qDaily >>

\* the initial job raised: setup_financial_year_job and lifespan raise with it
LifespanFail ==
    /\ app.pc = "initial_job"
    /\ pRes.status = "raised"
    /\ PFinish
    /\ app' = [ app EXCEPT !.pc = "failed" ]
    /\ UNCHANGED << t2, p2, call, qDaily >>

\* CronTrigger(minute='*/1'): the running scheduler starts a registered job that
\* has fewer than max_instances executions in progress
SchedulerFire ==
    /\ app.running
    /\ \E j \in app.jobs :
          /\ Instances(j.id) < j.max_instances
          /\ JobStart(j.id)
    /\ UNCHANGED ext

\* a scheduled execution of financial_year_creation_job ends
JobEnds ==
    /\ app.pc = "started"
    /\ PFinish
    /\ UNCHANGED ext

\* No execution of quarter_transition_job ever starts, so its steps are not listed.
NextApp ==
    \/ Tick /\ UNCHANGED ext
    \/ LifespanRunInitialJob \/ LifespanStart \/ LifespanFail
    \/ SchedulerFire
    \/ PFlush /\ UNCHANGED ext
    \/ PQuarters /\ UNCHANGED ext
    \/ PCommit /\ UNCHANGED ext
    \/ PRefresh /\ UNCHANGED ext
    \/ PReturn /\ UNCHANGED ext
    \/ JobEnds

SpecApp == Init /\ [][NextApp]_vars

\* ------------------------------------------------------ the date functions
\* The arguments the functions are called with: the first, the fifteenth and
\* the last day of every month of the year before BaseYear, of BaseYear and of
\* the year after; the range of a quarter is drawn from the first and last days
\* of the months of BaseYear.
DayOf(dt) == dt % 100
DaysInMonth(y, m) ==
    IF m \in { 4, 6, 9, 11 } THEN 30
    ELSE IF m # 2 THEN 31
    ELSE IF (y % 4 = 0 /\ y % 100 # 0) \/ y % 400 = 0 THEN 29 ELSE 28
NextDay(dt) ==
    IF DayOf(dt) < DaysInMonth(YearOf(dt), MonthOf(dt)) THEN dt + 1
    ELSE IF MonthOf(dt) < 12 THEN MkDate(YearOf(dt), MonthOf(dt) + 1, 1)
    ELSE MkDate(YearOf(dt) + 1, 1, 1)

FnYears == (BaseYear - 1) .. (BaseYear + 1)
FnDates ==
    UNION { { MkDate(y, m, 1), MkDate(y, m, 15), MkDate(y, m, DaysInMonth(y, m)) }
            : y \in FnYears, m \in 1 .. 12 }
FnRangeDates ==
    { d \in FnDates : YearOf(d) = BaseYear /\ DayOf(d) # 15 }

\* Each behaviour makes one call.
FnFrame == UNCHANGED << today, db, tVars, tHist, pVars, pHist, t2, p2, app, qDaily >>

\* is_locked, status = determine_quarter_status(start_date, end_date, today)
CallDetermineQuarterStatus ==
    /\ call = NoCall
    /\ \E s \in FnRangeDates, e \in FnRangeDates, t \in FnDates :
          /\ s <= e
          /\ call' = [ fn |-> "determine_quarter_status", args |-> << s, e, t >>,
                       ret |-> DetermineQuarterStatus(s, e, t) ]
    /\ FnFrame

\* fy_string, fy_start_year = calculate_current_financial_year(), today being d
CallCalculateCurrentFinancialYear ==
    /\ call = NoCall
    /\ \E d \in FnDates :
          call' = [ fn |-> "calculate_current_financial_year", args |-> << d >>,
                    ret |-> CalculateCurrentFinancialYear(d) ]
    /\ FnFrame

\* quarter_dates = get_quarter_dates(fy_start_year)
CallGetQuarterDates ==
    /\ call = NoCall
    /\ \E y \in FnYears :
          call' = [ fn |-> "get_quarter_dates", args |-> << y >>,
                    ret |-> GetQuarterDates(y) ]
    /\ FnFrame

\* fy_prev, q_prev = get_previous_quarter(fy_start, q_num)
CallGetPreviousQuarter ==
    /\ call = NoCall
    /\ \E y \in FnYears, n \in 1 .. 4 :
          call' = [ fn |-> "get_previous_quarter", args |-> << y, n >>,
                    ret |-> GetPreviousQuarter(y, n) ]
    /\ FnFrame

\* the head of transition_quarters_to_current_state, today being d: the current
\* and the previous (fy_start_year, quarter_number) and their labels
CallTransitionIdentity ==
    /\ call = NoCall
    /\ \E d \in FnDates :
          LET cur == GetCurrentQuarterFromDate(d)
              prev == GetPreviousQuarter(cur[1], cur[2])
          IN  call' = [ fn |-> "transition_identity", args |-> << d >>,
                        ret |-> [ current |-> cur, previous |-> prev,
                                  current_fy_str |-> FyString(cur[1]),
                                  prev_fy_str |-> FyString(prev[1]) ] ]
    /\ FnFrame

\* for a date d: what get_current_quarter_from_date returns, and what
\* determine_quarter_status returns for each range of get_quarter_dates
CallMapperAndPolicy ==
    /\ call = NoCall
    /\ \E d \in FnDates :
          LET cur == GetCurrentQuarterFromDate(d)
              quarter_dates == GetQuarterDates(cur[1])
          IN  call' = [ fn |-> "mapper_and_policy", args |-> << d >>,
                        ret |-> [ current |-> cur,
                                  statuses |-> [ n \in 1 .. Len(quarter_dates) |->
                                      DetermineQuarterStatus(quarter_dates[n].start_date,
                                                             quarter_dates[n].end_date, d) ] ] ]
    /\ FnFrame

NextFn ==
    \/ CallDetermineQuarterStatus
    \/ CallCalculateCurrentFinancialYear
    \/ CallGetQuarterDates
    \/ CallGetPreviousQuarter
    \/ CallTransitionIdentity
    \/ CallMapperAndPolicy

SpecFn == Init /\ [][NextFn]_vars

\* C11: the quarter rows after a successful transition run at date d (the clock
\* still at d) are the rows that a run on every clock date up to d leaves,
\* however few runs, failed or not, came before it.
C11_IntervalIndependent ==
    (tPc = "done" /\ tRes.status = "success" /\ tToday = today) => quarters = qDaily

\* C12: when two executions of the transition job that read the same date have
\* both ended and at least one of them committed, the quarter rows are those a
\* single execution at that date leaves, from the rows either of them started on.
C12_OverlapConverges ==
    ( /\ tPc = "done" /\ t2.pc = "done"
      /\ tToday = t2.today
      /\ (tRes.status = "success" \/ t2.res.status = "success") )
        => /\ quarters = RunTransition(tQ0, tToday)
           /\ quarters = RunTransition(t2.q0, tToday)

C12_Witness ==
    /\ tPc = "done" /\ t2.pc = "done"
    /\ tToday = t2.today /\ tQ0 = t2.q0
    /\ tRes.status = "success" /\ t2.res.status = "success"
    /\ tCurUpd > 0 /\ tPrevUpd > 0 /\ t2.cur_upd > 0 /\ t2.prev_upd > 0
    /\ quarters # tQ0

\* C13: once startup has completed, the scheduler is running and holds both
\* financial_year_creation_job and quarter_transition_job, each registered with
\* max_instances = 1.
C13_BothJobsRegistered ==
    app.pc = "started" =>
        /\ app.running
        /\ \A id \in { "financial_year_creation_job", "quarter_transition_job" } :
              \E j \in app.jobs : j.id = id /\ j.max_instances = 1

\* C14: a call of create_financial_year_with_quarters that builds its quarters
\* on date d, d in the financial year fy the call computed, has built one
\* FinancialYear with label YY-YY of fy, start fy-04-01, end (fy+1)-03-31,
\* return date (fy+1)-07-31 and status active, and four quarters of which the
\* one containing d is unlocked and active, the earlier ones unlocked and
\* completed, the later ones locked and inactive; its commit adds exactly these
\* rows to the tables.
C14_ProvisioningResult ==
    [][ /\ (pPc = "quarters" /\ pPc' = "commit" /\ ExpectedFyStart(today) = pStartYear) =>
              LET fy == ExpectedFyStart(today)
                  qd == ExpectedQuarter(today)
              IN  /\ pFy.client_id = pClient
                  /\ pFy.financial_year = Label(fy)
                  /\ pFy.start_date = MkDate(fy, 4, 1)
                  /\ pFy.end_date = MkDate(fy + 1, 3, 31)
                  /\ pFy.return_date = MkDate(fy + 1, 7, 31)
                  /\ pFy.status = "active"
                  /\ Cardinality(pQs') = 4
                  /\ { q.quarter_number : q \in pQs' } = 1 .. 4
                  /\ \A q \in pQs' :
                        /\ q.financial_year_id = pFy.id
                        /\ q.quarter_number = qd => (q.is_locked = FALSE /\ q.status = "active")
                        /\ q.quarter_number < qd => (q.is_locked = FALSE /\ q.status = "completed")
                        /\ q.quarter_number > qd => (q.is_locked = TRUE /\ q.status = "inactive")
        /\ (pPc = "commit" /\ pPc' = "refresh") =>
              (fys' = fys \cup { pFy } /\ quarters' = quarters \cup pQs /\ Cardinality(pQs) = 4)
      ]_vars

C14_Witness ==
    /\ pPc = "refresh"
    /\ \E f \in fys :
          /\ f.client_id = pClient
          /\ f.financial_year = Label(ExpectedFyStart(today))
          /\ { << q.is_locked, q.status >> : q \in QuartersOf(f) } =
                { << FALSE, "completed" >>, << FALSE, "active" >>, << TRUE, "inactive" >> }

\* C15: determine_quarter_status(start, end, t) with start <= end returns
\* (false, completed) exactly when t > end, (false, active) exactly when
\* start <= t <= end, and (true, inactive) exactly when t < start.
C15_StatusInclusive ==
    call.fn = "determine_quarter_status" =>
        LET s == call.args[1]
            e == call.args[2]
            t == call.args[3]
            r == << call.ret.is_locked, call.ret.status >>
        IN  /\ r \in { << FALSE, "completed" >>, << FALSE, "active" >>, << TRUE, "inactive" >> }
            /\ (r = << FALSE, "completed" >>) <=> (t > e)
            /\ (r = << FALSE, "active" >>) <=> (s <= t /\ t <= e)
            /\ (r = << TRUE, "inactive" >>) <=> (t < s)

C15_Witness ==
    /\ call.fn = "determine_quarter_status"
    /\ call.args[1] < call.args[2]
    /\ call.args[3] = call.args[2]
    /\ call.ret = [ is_locked |-> FALSE, status |-> "active" ]

\* C16: for a date d the FY start year is d's year in April to December and
\* the year before in January to March, and calculate_current_financial_year
\* and get_current_quarter_from_date with _fy_string both return that year and
\* its YY-YY label.
C16_FyMapping ==
    LET d == call.args[1]
        fy == IF MonthOf(d) \in 4 .. 12 THEN YearOf(d) ELSE YearOf(d) - 1
    IN  /\ call.fn = "calculate_current_financial_year" =>
              (call.ret.fy_start_year = fy /\ call.ret.fy_string = Label(fy))
        /\ call.fn = "transition_identity" =>
              (call.ret.current[1] = fy /\ call.ret.current_fy_str = Label(fy))

C16_Witness ==
    /\ call.fn = "calculate_current_financial_year"
    /\ MonthOf(call.args[1]) = 3
    /\ call.ret.fy_start_year = YearOf(call.args[1]) - 1

\* C17: get_quarter_dates(fy) returns four ranges numbered 1 to 4, each starting
\* no later than it ends, each starting the day after the one before ends, the
\* first starting on fy-04-01 and the last ending on (fy+1)-03-31.
C17_QuartersTile ==
    call.fn = "get_quarter_dates" =>
        LET fy == call.args[1]
            r == call.ret
        IN  /\ Len(r) = 4
            /\ \A n \in 1 .. 4 : r[n].quarter_number = n /\ r[n].start_date <= r[n].end_date
            /\ \A n \in 1 .. 3 : NextDay(r[n].end_date) = r[n + 1].start_date
            /\ r[1].start_date = MkDate(fy, 4, 1)
            /\ r[4].end_date = MkDate(fy + 1, 3, 31)

C17_Witness ==
    /\ call.fn = "get_quarter_dates"
    /\ call.args[1] = BaseYear
    /\ NextDay(call.ret[3].end_date) = MkDate(BaseYear + 1, 1, 1)

\* C18: get_previous_quarter(fy, 1) is (fy - 1, 4) and get_previous_quarter(fy, n)
\* is (fy, n - 1) for n in 2..4; for a date in January to March the transition
\* targets Q4 and Q3 under one label, and for a date in April to June it targets
\* Q1 and, under the label of the year before, Q4.
C18_PreviousQuarter ==
    /\ call.fn = "get_previous_quarter" =>
          LET fy == call.args[1]
              n == call.args[2]
          IN  call.ret = IF n = 1 THEN << fy - 1, 4 >> ELSE << fy, n - 1 >>
    /\ call.fn = "transition_identity" =>
          LET d == call.args[1]
          IN  /\ MonthOf(d) \in 1 .. 3 =>
                    /\ call.ret.current[2] = 4 /\ call.ret.previous[2] = 3
                    /\ call.ret.current_fy_str = Label(YearOf(d) - 1)
                    /\ call.ret.prev_fy_str = call.ret.current_fy_str
              /\ MonthOf(d) \in 4 .. 6 =>
                    /\ call.ret.current[2] = 1 /\ call.ret.previous[2] = 4
                    /\ call.ret.current_fy_str = Label(YearOf(d))
                    /\ call.ret.prev_fy_str = Label(YearOf(d) - 1)

C18_Witness ==
    /\ call.fn = "transition_identity"
    /\ MonthOf(call.args[1]) = 4
    /\ call.ret.previous = << YearOf(call.args[1]) - 1, 4 >>

\* C19: a provisioning run that returns a summary reports status partial exactly
\* when a client's call raised and success otherwise, clients_processed equal to
\* financial_years_created plus the number of clients whose call raised, and
\* quarters_created equal to four times the number of FinancialYear rows the run
\* committed.
C19_SummaryAccounting ==
    (pPc = "done" /\ pRes.status \in { "success", "partial" }) =>
        LET failing == { r[1] : r \in pRaised }
        IN  /\ (pRes.status = "partial") <=> (failing # {})
            /\ pRes.clients_processed = pRes.financial_years_created + Cardinality(failing)
            /\ pRes.quarters_created = 4 * Cardinality(pPersisted)

\* C20: the gap scan on date d returns exactly the clients that have no
\* FinancialYear row carrying d's label: the run goes on with that set when it
\* is not empty and returns the empty summary when it is.
C20_GapScanSetDifference ==
    [][ LET without == { c \in Clients :
                           ~ \E f \in fys : /\ f.client_id = c
                                            /\ f.financial_year = Label(ExpectedFyStart(today)) }
        IN  /\ (pPc = "idle" /\ pPc' = "loop") => (pIds' = without /\ pTodo' = without)
            /\ (pPc = "idle" /\ pPc' = "done" /\ pRes'.status = "success") => without = {}
      ]_vars

C20_Witness ==
    /\ pPc = "loop" /\ pTodo = pIds /\ pRaised = {}
    /\ pIds # {} /\ pIds # Clients
    /\ \E c \in pIds : \E f \in fys : f.client_id = c
    /\ \A c \in Clients \ pIds :
          \E f \in fys : f.client_id = c /\ f.financial_year = Label(ExpectedFyStart(today))

\* C21: with two executions of the provisioning job, a client has two
\* FinancialYear rows of one label only if the second execution's gap scan ran
\* before a row of that client and label was committed; such a state is
\* reachable.
C21_DuplicateOnlyByRace ==
    \A f \in fys : \A g \in fys :
        (f # g /\ f.client_id = g.client_id /\ f.financial_year = g.financial_year) =>
            /\ f.client_id \in pIds /\ f.client_id \in p2.ids
            /\ ~ \E h \in p2.fys0 : /\ h.client_id = f.client_id
                                     /\ h.financial_year = f.financial_year

C21_Witness ==
    \E f \in fys : \E g \in fys :
        /\ f # g /\ f.client_id = g.client_id /\ f.financial_year = g.financial_year
        /\ Cardinality(QuartersOf(f)) = 4 /\ Cardinality(QuartersOf(g)) = 4
        /\ pPc = "done" /\ p2.pc = "done"

\* C22: a scheduled run of financial_year_creation_job never ends by raising:
\* every datastore failure in it ends in a result the job logs.
C22_ErrorsStopAtJobBoundary ==
    (app.pc = "started" /\ pPc = "done") => pRes.status # "raised"

\* C23: when the initial provisioning run raises, lifespan fails with no job
\* registered and the scheduler not running, and they stay so; when it returns
\* a summary, partial included, the job is registered and the scheduler started.
C23_StartupFailureFatal ==
    [][ /\ (app.pc = "initial_job" /\ app'.pc # "initial_job") =>
              IF pRes.status = "raised"
              THEN app' = [ pc |-> "failed", jobs |-> {}, running |-> FALSE ]
              ELSE app' = [ pc |-> "started", jobs |-> { FyJob }, running |-> TRUE ]
        /\ app.pc = "failed" => (app' = app /\ pPc' = "idle")
      ]_vars

C23_Witness ==
    /\ app.pc = "failed"
    /\ app.jobs = {} /\ ~ app.running
    /\ today # FirstDate

\* C24: a step of a transition run that read date d leaves the FinancialYear
\* rows as they are, inserts and deletes no quarter row and changes no quarter's
\* FinancialYear, number or dates; it changes is_locked or status only of rows of
\* d's quarter under d's label and status only of rows of the previous quarter
\* under its label.
C24_TransitionFrame ==
    [][ (tPc # "idle" /\ pPc = "idle") =>
          LET isCur(q) == /\ LabelOf(q) = Label(ExpectedFyStart(tToday))
                          /\ q.quarter_number = ExpectedQuarter(tToday)
              isPrev(q) == /\ LabelOf(q) = Label(ExpectedPrevFyStart(tToday))
                           /\ q.quarter_number = ExpectedPrevQuarter(tToday)
          IN  /\ fys' = fys
              /\ { q.id : q \in quarters' } = { q.id : q \in quarters }
              /\ Cardinality(quarters') = Cardinality(quarters)
              /\ \A q \in quarters : \A r \in quarters' :
                    r.id = q.id =>
                      /\ r.financial_year_id = q.financial_year_id
                      /\ r.quarter_number = q.quarter_number
                      /\ r.start_date = q.start_date /\ r.end_date = q.end_date
                      /\ r.is_locked # q.is_locked => isCur(q)
                      /\ r.status # q.status => (isCur(q) \/ isPrev(q))
      ]_vars

C24_Witness ==
    /\ tPc = "done" /\ tRes.status = "success"
    /\ \E q \in tQ0 : \E r \in quarters :
          /\ r.id = q.id /\ q.is_locked /\ r.is_locked
          /\ q.status = "inactive" /\ r.status = "completed"
    /\ \E q \in tQ0 : q \in quarters /\ q.status = "inactive"

\* C25: in every committed state the (is_locked, status) pair of every quarter
\* row is (true, inactive), (false, active) or (false, completed).
C25_LockStatusConsistent ==
    \A q \in quarters :
        << q.is_locked, q.status >> \in
            { << TRUE, "inactive" >>, << FALSE, "active" >>, << FALSE, "completed" >> }

\* C26: for a date d the quarter number get_current_quarter_from_date returns
\* is the number of the one range of get_quarter_dates, for d's FY start year,
\* that determine_quarter_status reports active at d.
C26_MapperPolicyAgree ==
    call.fn = "mapper_and_policy" =>
        { n \in DOMAIN call.ret.statuses :
              call.ret.statuses[n] = [ is_locked |-> FALSE, status |-> "active" ] }
          = { call.ret.current[2] }

C26_Witness ==
    /\ call.fn = "mapper_and_policy"
    /\ MonthOf(call.args[1]) = 12 /\ DayOf(call.args[1]) = 31
    /\ call.ret.current[2] = 3
    /\ call.ret.statuses[2].status = "completed"
    /\ call.ret.statuses[4].status = "inactive"

\* C27: the FinancialYear a provisioning call has just committed has exactly
\* one active quarter, every earlier quarter completed and every later one
\* inactive.
C27_OneConsistentDate ==
    pPc = "refresh" =>
        \A f \in fys :
            (f.client_id = pClient /\ f.start_date = MkDate(pStartYear, 4, 1)) =>
                \E n \in 1 .. 4 :
                    \A q \in QuartersOf(f) :
                        /\ q.quarter_number = n => q.status = "active"
                        /\ q.quarter_number < n => q.status = "completed"
                        /\ q.quarter_number > n => q.status = "inactive"

\* C28: once two overlapping executions that read dates of adjacent quarters
\* of one FinancialYear have both committed, starting from rows with at most
\* one active quarter per FinancialYear, no quarter that the execution with
\* the later date committed as completed is active again, and no
\* FinancialYear has two active quarters.
C28_OverlapOneActive ==
    ( /\ tPc = "done" /\ t2.pc = "done"
      /\ tRes.status = "success" /\ t2.res.status = "success"
      /\ ExpectedFyStart(tToday) = ExpectedFyStart(t2.today)
      /\ ExpectedQuarter(tToday) + 1 = ExpectedQuarter(t2.today)
      /\ \A f \in fys :
            Cardinality({ q \in tQ0 \cup t2.q0 :
                            q.financial_year_id = f.id /\ q.status = "active" }) <= 1 )
    => /\ \A q \in quarters : q.id \in t2.prev_ids => q.status # "active"
       /\ \A f \in fys :
             Cardinality({ q \in QuartersOf(f) : q.status = "active" }) <= 1

\* C29: after an execution of create_financial_years_for_all_clients on a date
\* that reported no failures, every client has a FinancialYear with that
\* date's label, and the execution that follows it on the same date finds no
\* clients, reports clients_processed = 0 and inserts no rows.
C29_RerunIdempotent ==
    (pPc = "done" /\ pRes.status = "success") =>
        /\ \A c \in Clients :
              \E f \in fys :
                  f.client_id = c /\ f.financial_year = Label(ExpectedFyStart(today))
        /\ p2.pc # "idle" =>
              /\ p2.pc = "done"
              /\ p2.ids = {} /\ p2.ok = 0
              /\ fys = p2.fys0
              /\ \A q \in quarters : \E f \in p2.fys0 : q.financial_year_id = f.id
              /\ p2.res.status # "raised" =>
                    /\ p2.res.status = "success"
                    /\ p2.res.clients_processed = 0
                    /\ p2.res.financial_years_created = 0
                    /\ p2.res.quarters_created = 0

C29_Witness ==
    /\ pPc = "done" /\ pRes.status = "success" /\ pRes.clients_processed = NumClients
    /\ \E f \in fys : f.financial_year # Label(ExpectedFyStart(today))
    /\ p2.pc = "done" /\ p2.res.status = "success" /\ p2.res.clients_processed = 0

====
